---- MODULE Spec2Model ----
(***************************************************************************)
(* Recovery monitoring state machine of the Divi wallet importer           *)
(* (src/divi_wallet_importer/api.py, rpc.py).                              *)
(*                                                                         *)
(* One process runs a foreground control flow (CLI loop or the single      *)
(* threaded HTTP server) and the monitor threads it has spawned.  The      *)
(* in-memory globals are lost when the process exits (Restart); the state  *)
(* file survives.  The daemon is external: each RPC probe may answer with  *)
(* a result, an RPCError or an RPCConnectionError.                         *)
(*                                                                         *)
(* Strings are sequences of tokens (a fixed message is one token); time is *)
(* whole seconds, 0 standing for Python's None start time.                 *)
(***************************************************************************)
EXTENDS Integers, Sequences, FiniteSets, TLC

\* ------------------------------------------------------------------ bounds
MaxTime == 2
MaxBlocks == 2
MaxMonitors == 1
MaxRacers == 2
MaxLaunches == 2
MaxIOFailures == 1
MaxHeaders == 50

\* --------------------------------------------------------------- constants
max_failures == 6
\* for i in range(15): the polls of start_recovery's wait for the old daemon
stop_attempts == 15
None == 0

\* ----------------------------------------------------------------- strings
Empty == <<>>

Str(tok) == <<tok>>

Contains(message, pat) == \E i \in 1..Len(message) : message[i] = pat

IndexOf(s, tok) ==
    IF Contains(s, tok)
    THEN CHOOSE i \in 1..Len(s) : s[i] = tok /\ \A j \in 1..(i - 1) : s[j] # tok
    ELSE 0

\* s.split(tok)[0]
SplitHead(s, tok) ==
    IF IndexOf(s, tok) = 0 THEN s ELSE SubSeq(s, 1, IndexOf(s, tok) - 1)

\* everything after the first tok
SplitRest(s, tok) == SubSeq(s, IndexOf(s, tok) + 1, Len(s))

IsSpace(tok) == tok = " "

RECURSIVE LStrip(_)
LStrip(s) == IF s # Empty /\ IsSpace(Head(s)) THEN LStrip(Tail(s)) ELSE s

RECURSIVE RStrip(_)
RStrip(s) ==
    IF s # Empty /\ IsSpace(s[Len(s)]) THEN RStrip(SubSeq(s, 1, Len(s) - 1)) ELSE s

Strip(s) == RStrip(LStrip(s))

\* message.split("(")[1].split("%")[0].strip() + "%", "" on IndexError
ExtractPercent(message) ==
    IF ~Contains(message, "(")
    THEN Empty
    ELSE Strip(SplitHead(SplitHead(SplitRest(message, "("), "("), "%")) \o Str("%")

\* 2^p mod m
RECURSIVE Pow2Mod(_, _)
Pow2Mod(p, m) == IF p = 0 THEN 1 % m ELSE (2 * Pow2Mod(p - 1, m)) % m

\* the n with 2^n <= k < 2^(n+1), for k >= 1
RECURSIVE Log2(_)
Log2(k) == IF k < 2 THEN 0 ELSE 1 + Log2(k \div 2)

\* the j >= 1 with 2^-j <= b / h < 2^(1-j), for 0 < b < h, counting up from j
RECURSIVE Binade(_, _, _)
Binade(b, h, j) == IF b * 2^j >= h THEN j ELSE Binade(b, h, j + 1)

\* blocks / headers as a double, for 0 < b < h: the quotient is rounded to
\* the nearest M / 2^p with a mantissa M of 53 bits (p = 52 + Binade, ties
\* to the even M); this is the error b * 2^p - h * M of that rounding
DivisionError(b, h) ==
    LET p == 52 + Binade(b, h, 1)
        u == (b * Pow2Mod(p, 2 * h)) % (2 * h)
        t == u % h
    IN  IF 2 * t < h THEN t
        ELSE IF 2 * t > h THEN t - h
        ELSE IF u >= h THEN t - h ELSE t

\* the integer division that blocks / headers * 100 is taken for
PercentFloor(b, h) == (100 * b) \div h

\* int(blocks / headers * 100) in double arithmetic, for 0 <= b < h: the
\* product is 100 * b / h - 100 * DivisionError / (h * 2^p), rounded to the
\* nearest double.  When 100 * b / h is not an integer k the result is its
\* floor (the error is far smaller than 1 / h).  When it is, the product
\* lies below k if DivisionError > 0, and is rounded to the double before k
\* rather than to k when it is more than half the gap away from k; the gap
\* below k is 2^(n-52) for 2^n < k < 2^(n+1) and 2^(n-53) for k = 2^n.
IntPercent(b, h) ==
    LET k == (100 * b) \div h
        n == Log2(k)
        j == Binade(b, h, 1)
        half == IF k = 2^n THEN h * 2^(j + n - 2) ELSE h * 2^(j + n - 1)
    IN  IF b = 0 THEN 0
        ELSE IF (100 * b) % h = 0 /\ 100 * DivisionError(b, h) > half
        THEN k - 1
        ELSE k

\* "{}%".format(int(blocks / max(headers, 1) * 100)), for 0 <= blocks < headers
Pct(blocks, headers) == Str(ToString(IntPercent(blocks, headers))) \o Str("%")

BlockMsg(blocks, headers) ==
    <<"Block ", ToString(blocks), "/", ToString(headers)>>

\* ------------------------------------------------------------- RPC answers
Messages ==
    { Str("Loading block index"),
      <<"Loading wallet", "...", " ", "(", "37", "%", ")">>,
      Str("Loading wallet"),
      Str("Rescanning"),
      Str("Scanning"),
      Str("Verifying"),
      Str("Activating best chain"),
      Str("Safe mode") }

Success(b, h) == [kind |-> "ok", blocks |-> b, headers |-> h, message |-> Empty]
RPCError(m) == [kind |-> "app", blocks |-> 0, headers |-> 0, message |-> m]
RPCConnectionError == [kind |-> "conn", blocks |-> 0, headers |-> 0, message |-> Empty]

Responses ==
    { Success(b, h) : b \in 0..MaxBlocks, h \in 0..MaxBlocks }
        \cup { RPCError(m) : m \in Messages }
        \cup { RPCConnectionError }

ConnectionProbes == {r \in Responses : r.kind = "conn"}

\* ------------------------------------------------------------ DiviRPC.call
\* What comes back from urlopen: transport tells whether the endpoint was
\* reached; a reply that was delivered has a status code and a body, which
\* is not JSON ("invalid"), JSON that is not an object ("scalar"), or an
\* object ("envelope") whose error member is null or missing, an object
\* with a message, or a string.
Reply(transport, code, shape, error, message, blocks, headers) ==
    [transport |-> transport, code |-> code, shape |-> shape, error |-> error,
     message |-> message, blocks |-> blocks, headers |-> headers]

Unreachable == Reply("unreachable", 0, "invalid", "null", Empty, 0, 0)

\* one status code of the 2xx class and one outside of it
Codes == {200, 500}

\* the substrings the monitor looks for, in the order of its tests
Patterns ==
    << "Loading block index", "Loading wallet", "Rescanning", "Scanning",
       "Verifying", "Activating best chain" >>

PatternTokens == {Patterns[i] : i \in DOMAIN Patterns} \cup {"Safe mode"}

\* messages of a daemon that is loading its wallet, with and without a
\* well-formed "(NN%)"
WalletMessages ==
    { <<"Loading wallet", "...", " ", "(", "37", "%", ")">>,
      <<"Loading wallet", "(", " ", "37", " ", "%", ")">>,
      <<"Loading wallet", "(", "37", ")">>,
      <<"Loading wallet", "(", "abc", "%", ")">>,
      <<"Loading wallet", "(", "%", ")">>,
      <<"Loading wallet", "37", "%">>,
      <<"Loading wallet", "(", "(", "37", "%", ")">> }

\* error messages: every text made of one or two of the substrings (or of
\* text that holds none), and the wallet messages
ErrorMessages ==
    { Str(a) : a \in PatternTokens }
        \cup { <<a, b>> : a \in PatternTokens, b \in PatternTokens }
        \cup WalletMessages

Replies ==
    { Unreachable }
        \cup { Reply("delivered", c, shape, "null", Empty, 0, 0) :
                  c \in Codes, shape \in {"invalid", "scalar"} }
        \cup { Reply("delivered", c, "envelope", "string", Empty, 0, 0) : c \in Codes }
        \cup { Reply("delivered", c, "envelope", "object", m, 0, 0) :
                  c \in Codes, m \in ErrorMessages }
        \cup { Reply("delivered", c, "envelope", "null", Empty, b, h) :
                  c \in Codes, b \in 0..MaxHeaders, h \in 0..MaxHeaders }

\* an exception that is neither RPCError nor RPCConnectionError
\* (AttributeError of .get on something that is not a dict)
Escapes == [kind |-> "raise", blocks |-> 0, headers |-> 0, message |-> Empty]

\* if body.get('error'): raise RPCError(..); return body.get('result')
Envelope(reply) ==
    IF reply.shape = "scalar" THEN Escapes
    ELSE IF reply.error = "object" THEN RPCError(reply.message)
    ELSE IF reply.error = "string" THEN Escapes
    ELSE Success(reply.blocks, reply.headers)

\* DiviRPC.call: the try block around urlopen and json.loads, then the
\* envelope
RPCCall(reply) ==
    IF reply.transport # "delivered" THEN RPCConnectionError
    ELSE IF reply.code \in 200..299
    THEN IF reply.shape = "invalid" THEN RPCConnectionError ELSE Envelope(reply)
    ELSE IF reply.shape = "invalid"
    THEN RPCError(<<"HTTP ", ToString(reply.code)>>)
    ELSE Envelope(reply)

NoExchange == [stage |-> "none", reply |-> Unreachable, answer |-> RPCConnectionError]

\* ------------------------------------------------------------------ status
Status(state, message, progress, phase) ==
    [state |-> state, phase |-> phase, message |-> message, progress |-> progress]

IdleStatus == Status("idle", Empty, Empty, "")

\* What one poll of the monitor loop does with the answer r when the
\* loop has already seen cf consecutive connection failures:
\* the status it sets and where the loop goes after the update.
\* a sync in progress reported under the phase of a finished one
PollSuccessPhaseComplete(r) ==
    IF r.headers > 0 /\ r.blocks >= r.headers
    THEN [status |-> Status("complete",
                        Str("Recovery complete. Ready to launch Divi Desktop."),
                        <<"100", "%">>, "complete"),
          next |-> "clear"]
    ELSE IF r.headers > 0
    THEN [status |-> Status("running", BlockMsg(r.blocks, r.headers),
                        Pct(r.blocks, r.headers), "complete"),
          next |-> "poll"]
    ELSE [status |-> Status("running", Str("Waiting for block headers..."),
                        Empty, "syncing"),
          next |-> "poll"]

PollSuccess(r) ==
    IF r.headers > 0 /\ r.blocks >= r.headers
    THEN [status |-> Status("complete",
                        Str("Recovery complete. Ready to launch Divi Desktop."),
                        <<"100", "%">>, "complete"),
          next |-> "clear"]
    ELSE IF r.headers > 0
    THEN [status |-> Status("running", BlockMsg(r.blocks, r.headers),
                        Pct(r.blocks, r.headers), "syncing"),
          next |-> "poll"]
    ELSE [status |-> Status("running", Str("Waiting for block headers..."),
                        Empty, "syncing"),
          next |-> "poll"]

\* the scan looked for before the wallet
PollRPCErrorScanningFirst(r) ==
    IF Contains(r.message, "Loading block index")
    THEN [status |-> Status("running", Str("Loading blockchain index..."),
                        Empty, "loading_blocks"),
          next |-> "poll"]
    ELSE IF Contains(r.message, "Rescanning") \/ Contains(r.message, "Scanning")
    THEN [status |-> Status("running",
                        Str("Scanning blockchain for your transactions..."),
                        Empty, "scanning"),
          next |-> "check"]
    ELSE IF Contains(r.message, "Loading wallet")
    THEN [status |-> Status("running",
                        Str("Recreating wallet from seed phrase... ")
                            \o ExtractPercent(r.message),
                        ExtractPercent(r.message), "recovering_wallet"),
          next |-> "poll"]
    ELSE IF Contains(r.message, "Verifying")
    THEN [status |-> Status("running", Str("Verifying blockchain data..."),
                        Empty, "verifying"),
          next |-> "poll"]
    ELSE IF Contains(r.message, "Activating best chain")
    THEN [status |-> Status("running", Str("Activating best chain..."),
                        Empty, "loading_blocks"),
          next |-> "poll"]
    ELSE [status |-> Status("running", r.message, Empty, ""),
          next |-> "poll"]

PollRPCError(r) ==
    IF Contains(r.message, "Loading block index")
    THEN [status |-> Status("running", Str("Loading blockchain index..."),
                        Empty, "loading_blocks"),
          next |-> "poll"]
    ELSE IF Contains(r.message, "Loading wallet")
    THEN [status |-> Status("running",
                        Str("Recreating wallet from seed phrase... ")
                            \o ExtractPercent(r.message),
                        ExtractPercent(r.message), "recovering_wallet"),
          next |-> "poll"]
    ELSE IF Contains(r.message, "Rescanning") \/ Contains(r.message, "Scanning")
    THEN [status |-> Status("running",
                        Str("Scanning blockchain for your transactions..."),
                        Empty, "scanning"),
          next |-> "check"]
    ELSE IF Contains(r.message, "Verifying")
    THEN [status |-> Status("running", Str("Verifying blockchain data..."),
                        Empty, "verifying"),
          next |-> "poll"]
    ELSE IF Contains(r.message, "Activating best chain")
    THEN [status |-> Status("running", Str("Activating best chain..."),
                        Empty, "loading_blocks"),
          next |-> "poll"]
    ELSE [status |-> Status("running", r.message, Empty, ""),
          next |-> "poll"]

\* the threshold reached one poll early
PollConnectionErrorEarly(cf) ==
    IF cf + 1 >= max_failures - 1
    THEN [status |-> Status("error", Str("Daemon stopped responding."),
                        Empty, "error"),
          next |-> "done"]
    ELSE [status |-> Status("running", Str("Waiting for daemon response..."),
                        Empty, "starting"),
          next |-> "poll"]

\* a loop that ends at the threshold without reporting the error
PollConnectionErrorSilent(cf) ==
    IF cf + 1 >= max_failures
    THEN [status |-> Status("running", Str("Waiting for daemon response..."),
                        Empty, "starting"),
          next |-> "done"]
    ELSE [status |-> Status("running", Str("Waiting for daemon response..."),
                        Empty, "starting"),
          next |-> "poll"]

PollConnectionError(cf) ==
    IF cf + 1 >= max_failures
    THEN [status |-> Status("error", Str("Daemon stopped responding."),
                        Empty, "error"),
          next |-> "done"]
    ELSE [status |-> Status("running", Str("Waiting for daemon response..."),
                        Empty, "starting"),
          next |-> "poll"]

\* an RPCError that leaves the counter alone
NextFailuresKeptOnRPCError(r, cf) ==
    IF r.kind = "conn" THEN cf + 1 ELSE IF r.kind = "ok" THEN 0 ELSE cf

NextFailures(r, cf) == IF r.kind = "conn" THEN cf + 1 ELSE 0

\* ------------------------------------------------------------------- state
VARIABLES
    recovery_status,       \* _recovery_status
    recovery_start_time,   \* _recovery_start_time (None = 0)
    auto_launched,         \* _auto_launched
    stateFile,             \* importer_state.json
    now,                   \* time.time()
    monitors,              \* the _monitor_recovery threads
    fg,                    \* where the foreground call in progress is
    ret,                   \* what the step just taken returned to the caller
    launches,              \* auto-launches of Divi Desktop since start_recovery
    io_failures,           \* file operations that have failed so far
    sr,                    \* the start_recovery call in progress
    recovery_lock,         \* _recovery_lock: the thread that holds it
    calls,                 \* the accesses to _recovery_status in progress
    wire                   \* the getinfo exchange of the poll under way

vars == <<recovery_status, recovery_start_time, auto_launched, stateFile, now,
          monitors, fg, ret, launches, io_failures, sr, recovery_lock, calls,
          wire>>

NoFile == [exists |-> FALSE, start_time |-> None, phase |-> "", timestamp |-> 0]

StateRecord(start, phase, t) ==
    [exists |-> TRUE, start_time |-> start, phase |-> phase, timestamp |-> t]

\* the threads the process can have alive at a time
MonitorIds == DOMAIN monitors

\* pc: where the thread is; consecutive_failures: the loop's counter;
\* run, exit: history of the loop (connection failures since the last
\* answer, why it put the status into error)
NoMonitor == [pc |-> "none", consecutive_failures |-> 0, run |-> 0, exit |-> ""]

NewMonitor == [NoMonitor EXCEPT !.pc = "settle"]

\* ret keeps the call, its success / in_progress flag, whether an
\* exception escaped, what the waits of start_recovery found and the
\* message of start_recovery; the other fields of a result are functions of the
\* state the call ran in
NoReturn ==
    [op |-> "", success |-> FALSE, in_progress |-> FALSE, raised |-> FALSE,
     rpc_ready |-> FALSE, wallet_found |-> FALSE, message |-> Empty]

\* kind: the answer to the call's latest is_responsive, or the
\* RPCConnectionError of from_conf ("" when the call has made none);
\* polls: the polls its wait for the old daemon has made; state: the state
\* of the status when the call began; mnemonic: the argument of the call
NoCall == [kind |-> "", polls |-> 0, state |-> "", mnemonic |-> Empty]

\* the threads of the process: 0 is the foreground, i > 0 the monitor
\* thread i
Threads == 0..MaxMonitors

NoThread == -1

\* the fields of _recovery_status a reader has not read yet
Unread == [state |-> "?", phase |-> "?", message |-> Empty, progress |-> Empty]

\* pc: where the thread is in its access; op: the function that makes it;
\* arg: the dict a writer assigns; seen: what a reader has read
NoAccess == [pc |-> "idle", op |-> "", arg |-> IdleStatus, seen |-> Unread]

Outcome(res) ==
    [op |-> res.op, success |-> res.success, in_progress |-> res.in_progress,
     raised |-> res.raised, rpc_ready |-> FALSE, wallet_found |-> FALSE,
     message |-> IF res.op = "start_recovery" THEN res.message ELSE Empty]

\* the tool is started for the first time, with room for n threads
Start(n) ==
    /\ recovery_status = IdleStatus
    /\ recovery_start_time = None
    /\ auto_launched = FALSE
    /\ stateFile = NoFile
    /\ now = 1
    /\ monitors = [i \in 1..n |-> NoMonitor]
    /\ fg = "idle"
    /\ ret = NoReturn
    /\ launches = 0
    /\ sr = NoCall
    /\ recovery_lock = NoThread
    /\ calls = [t \in Threads |-> NoAccess]
    /\ wire = NoExchange

Init == Start(MaxMonitors) /\ io_failures = 0

\* ------------------------------------------------------- persistent store
\* _save_state(phase) on top of the file f: the write may fail with
\* OSError, which is swallowed
\* a record that takes the time of the write for the start of the recovery
SaveStateFreshStart(f, start, phase, ok) ==
    IF ok THEN StateRecord(now, phase, now) ELSE f

SaveState(f, start, phase, ok) ==
    IF ok THEN StateRecord(start, phase, now) ELSE f

\* a read that hands out the record although it failed
LoadStateAnyway(f, ok) == f

\* _load_state(): the record, or None (no record) when the read fails
\* with OSError or JSONDecodeError
LoadState(f, ok) == IF ok THEN f ELSE NoFile

\* a removal that leaves the record in place
ClearStateKeeps(f, ok) == f

\* _clear_state(): same for the removal
ClearState(f, ok) == IF ok THEN NoFile ELSE f

\* the state file after _set_status(.., phase)
SetStatusFile(f, start, phase, ok) ==
    IF phase # "" THEN SaveState(f, start, phase, ok) ELSE f

\* the outcomes of a step of the environment, where it takes place
Outcomes(takesPlace) == IF takesPlace THEN BOOLEAN ELSE {TRUE}

\* the outcomes of a file operation, where one takes place, after
\* used failures in the same step
IO(takesPlace, used) ==
    Outcomes(takesPlace /\ io_failures + used < MaxIOFailures)

Fails(ok) == IF ok THEN 0 ELSE 1

\* ----------------------------------------------------------------- monitor
\* time.sleep(5); DiviRPC.from_conf()
MonitorBegin(i) ==
    /\ UNCHANGED <<sr, recovery_lock, calls, wire>>
    /\ monitors[i].pc = "settle"
    /\ \E conf \in BOOLEAN :
          IF conf
          THEN /\ monitors' = [monitors EXCEPT ![i].pc = "poll"]
               /\ UNCHANGED recovery_status
          ELSE /\ recovery_status' =
                      Status("error", Str("Cannot read RPC config"), Empty, "")
               /\ monitors' = [monitors EXCEPT ![i].pc = "done", ![i].exit = "config"]
    /\ ret' = NoReturn
    /\ UNCHANGED <<recovery_start_time, auto_launched, stateFile, now, fg, launches,
                   io_failures>>

PollOutcome(r, cf) ==
    IF r.kind = "ok" THEN PollSuccess(r)
    ELSE IF r.kind = "app" THEN PollRPCError(r)
    ELSE PollConnectionError(cf)

\* a scanning branch that calls _auto_launch_desktop whatever the flag
AfterPollLaunchesAgain(next) ==
    IF next = "clear" THEN "done"
    ELSE IF next = "check" THEN "launch"
    ELSE next

\* where the loop is after the poll: the scanning branch reads the flag
AfterPoll(next) ==
    IF next = "clear" THEN "done"
    ELSE IF next = "check" THEN (IF auto_launched THEN "poll" ELSE "launch")
    ELSE next

\* one iteration of the while loop, up to the call of _auto_launch_desktop,
\* with getinfo answered from R
MonitorPollOn(i, R) ==
    /\ UNCHANGED <<sr, recovery_lock, calls, wire>>
    /\ monitors[i].pc = "poll"
    /\ \E r \in R :
       \E saveOk \in IO(PollOutcome(r, monitors[i].consecutive_failures).status.phase # "", 0) :
       \E clearOk \in IO(PollOutcome(r, monitors[i].consecutive_failures).next = "clear",
                         Fails(saveOk)) :
          LET m == monitors[i]
              out == PollOutcome(r, m.consecutive_failures)
              saved == SetStatusFile(stateFile, recovery_start_time,
                                     out.status.phase, saveOk)
          IN  /\ recovery_status' = out.status
              /\ stateFile' = IF out.next = "clear"
                              THEN ClearState(saved, clearOk) ELSE saved
              /\ monitors' = [monitors EXCEPT ![i] =
                    [pc |-> AfterPoll(out.next),
                     consecutive_failures |-> NextFailures(r, m.consecutive_failures),
                     run |-> IF r.kind = "conn" THEN m.run + 1 ELSE 0,
                     exit |-> IF out.status.state = "error" THEN "timeout" ELSE m.exit]]
              /\ io_failures' = io_failures + Fails(saveOk) + Fails(clearOk)
    /\ ret' = NoReturn
    /\ UNCHANGED <<recovery_start_time, auto_launched, now, fg, launches>>

MonitorPoll(i) == MonitorPollOn(i, Responses)

LaunchedStatus ==
    Status("launched",
           Str("Divi Desktop launched. It will finish syncing your wallet automatically."),
           Empty, "launched")

\* _auto_launch_desktop(); the loop then goes on to its sleep
AutoLaunchDesktop(i) ==
    /\ UNCHANGED <<sr, recovery_lock, calls, wire>>
    /\ monitors[i].pc = "launch"
    /\ auto_launched' = TRUE
    /\ \E launched \in BOOLEAN :
       \E saveOk \in IO(launched, 0) :
       \E clearOk \in IO(launched, Fails(saveOk)) :
          IF launched
          THEN /\ launches < MaxLaunches
               /\ launches' = launches + 1
               /\ recovery_status' = LaunchedStatus
               /\ stateFile' =
                      ClearState(SetStatusFile(stateFile, recovery_start_time,
                                               "launched", saveOk), clearOk)
               /\ io_failures' = io_failures + Fails(saveOk) + Fails(clearOk)
          ELSE UNCHANGED <<recovery_status, stateFile, launches, io_failures>>
    /\ monitors' = [monitors EXCEPT ![i].pc = "poll"]
    /\ ret' = NoReturn
    /\ UNCHANGED <<recovery_start_time, now, fg>>

\* the steps of the threads
MonitorBegins == \E i \in MonitorIds : MonitorBegin(i)

MonitorPolls == \E i \in MonitorIds : MonitorPoll(i)

MonitorPollsOn(R) == \E i \in MonitorIds : MonitorPollOn(i, R)

MonitorLaunches == \E i \in MonitorIds : AutoLaunchDesktop(i)

\* -------------------------------------------------------------- foreground
Return(op, success, message) ==
    [op |-> op, success |-> success, in_progress |-> FALSE, phase |-> "",
     elapsed |-> 0, message |-> message, raised |-> FALSE]

Progress(op, in_progress, phase, elapsed, message) ==
    [op |-> op, success |-> FALSE, in_progress |-> in_progress, phase |-> phase,
     elapsed |-> elapsed, message |-> message, raised |-> FALSE]

\* an exception that escapes the call (time.time() - None)
Raised(op) ==
    [op |-> op, success |-> FALSE, in_progress |-> FALSE, phase |-> "",
     elapsed |-> 0, message |-> Empty, raised |-> TRUE]

NotInProgress(op) == Progress(op, FALSE, "", 0, Empty)

\* the phase check_recovery_in_progress derives from an RPCError
ProbePhase(message, saved) ==
    IF Contains(message, "Loading block index") THEN "loading_blocks"
    ELSE IF Contains(message, "Loading wallet") THEN "recovering_wallet"
    ELSE IF Contains(message, "Rescanning") \/ Contains(message, "Scanning") THEN "scanning"
    ELSE IF Contains(message, "Verifying") THEN "verifying"
    ELSE saved.phase

\* a daemon that cannot be reached, with the record left where it is
DaemonGoneKeepsRecord(op, clearOk) ==
    [res |-> NotInProgress(op), file |-> stateFile]

\* check_recovery_in_progress(): except RPCConnectionError
DaemonGone(op, clearOk) ==
    [res |-> NotInProgress(op), file |-> ClearState(stateFile, clearOk)]

\* a record of a scan taken for one of a finished recovery
EndedPhasesWithScanning == {"complete", "error", "", "scanning"}

\* the phases of a record that a daemon answering normally has finished
EndedPhases == {"complete", "error", ""}

\* check_recovery_in_progress() as called by op, with the probe answer r
\* (used only if the state file is consulted), loadOk / clearOk telling
\* whether reading / removing the state file works:
\* the returned dict and the state file it leaves.
CheckRecoveryInProgress(op, r, loadOk, clearOk) ==
    LET saved == LoadState(stateFile, loadOk)
    IN  IF recovery_status.state = "running"
        THEN [res |-> Progress(op, TRUE, recovery_status.phase,
                               IF recovery_start_time # None
                               THEN now - recovery_start_time ELSE 0,
                               recovery_status.message),
              file |-> stateFile]
        ELSE IF ~saved.exists
        THEN [res |-> NotInProgress(op), file |-> stateFile]
        ELSE IF r.kind = "ok"
        THEN IF saved.phase \in EndedPhases
             THEN [res |-> NotInProgress(op), file |-> ClearState(stateFile, clearOk)]
             ELSE IF saved.start_time = None
             THEN [res |-> Raised(op), file |-> stateFile]
             ELSE [res |-> Progress(op, TRUE, saved.phase, now - saved.start_time,
                                    Str("Recovery in progress (resumed).")),
                   file |-> stateFile]
        ELSE IF r.kind = "app"
        THEN IF saved.start_time = None
             THEN [res |-> Raised(op), file |-> stateFile]
             ELSE [res |-> Progress(op, TRUE, ProbePhase(r.message, saved),
                                    now - saved.start_time, r.message),
                   file |-> stateFile]
        ELSE DaemonGone(op, clearOk)

\* the probe answers that make a difference to check_recovery_in_progress
Probes ==
    IF recovery_status.state # "running" /\ stateFile.exists
    THEN Responses ELSE {RPCConnectionError}

Consulted == recovery_status.state # "running" /\ stateFile.exists

\* the probe answers on which check_recovery_in_progress calls _clear_state
ClearsRecord(r) ==
    r.kind = "conn" \/ (r.kind = "ok" /\ stateFile.phase \in EndedPhases)

FreeSlot(i) == monitors[i].pc \in {"none", "done"}

\* the slot a new thread takes
NewSlot == CHOOSE i \in MonitorIds : FreeSlot(i) /\ \A j \in 1..(i - 1) : ~FreeSlot(j)

\* threading.Thread(target=_monitor_recovery, daemon=True).start()
StartThread(i) == [monitors EXCEPT ![i] = NewMonitor]

\* check_recovery_in_progress() with a probe answer from R
CheckInProgressOn(R) ==
    /\ UNCHANGED <<sr, recovery_lock, calls, wire>>
    /\ fg = "idle"
    /\ \E loadOk \in IO(Consulted, 0) :
       \E r \in IF loadOk THEN Probes \cap R ELSE {RPCConnectionError} :
       \E clearOk \in IO(Consulted /\ loadOk /\ ClearsRecord(r), Fails(loadOk)) :
          LET c == CheckRecoveryInProgress("check_recovery_in_progress", r, loadOk, clearOk)
          IN  /\ ret' = Outcome(c.res)
              /\ stateFile' = c.file
              /\ io_failures' = io_failures + Fails(loadOk) + Fails(clearOk)
    /\ UNCHANGED <<recovery_status, recovery_start_time, auto_launched, now, monitors,
                   fg, launches>>

\* GET /api/recovery/check, or the first step of run_cli
CheckInProgress == CheckInProgressOn(Responses)

\* get_recovery_status(): the snapshot and the elapsed time
RecoveryStatus ==
    [status |-> recovery_status,
     elapsed |-> IF recovery_start_time # None
                    /\ recovery_status.state \in {"running", "launched"}
                 THEN now - recovery_start_time ELSE 0]

GetRecoveryStatus ==
    /\ UNCHANGED <<sr, recovery_lock, calls, wire>>
    /\ fg = "idle"
    /\ ret' = Outcome(Return("get_recovery_status", TRUE, Empty))
    /\ UNCHANGED <<recovery_status, recovery_start_time, auto_launched, stateFile, now,
                   monitors, fg, launches, io_failures>>

\* resume_monitoring() with a probe answer from R
ResumeMonitoringOn(R) ==
    /\ UNCHANGED <<sr, recovery_lock, calls, wire>>
    /\ fg = "idle"
    /\ \E i \in MonitorIds : FreeSlot(i)
    /\ \E loadOk \in IO(Consulted, 0) :
       \E r \in IF loadOk THEN Probes \cap R ELSE {RPCConnectionError} :
       \E clearOk \in IO(Consulted /\ loadOk /\ ClearsRecord(r), Fails(loadOk)) :
       \E reloadOk \in IO(stateFile.exists /\ loadOk /\ clearOk, 0) :
       \E saveOk \in IO(loadOk /\ clearOk, Fails(reloadOk)) :
          LET c == CheckRecoveryInProgress("resume_monitoring", r, loadOk, clearOk)
              saved == LoadState(c.file, reloadOk)
              start == IF saved.exists /\ saved.start_time # None
                       THEN saved.start_time ELSE now
          IN  IF c.res.raised
              THEN /\ ret' = Outcome(c.res)
                   /\ stateFile' = c.file
                   /\ reloadOk /\ saveOk
                   /\ io_failures' = io_failures + Fails(loadOk) + Fails(clearOk)
                   /\ UNCHANGED <<recovery_status, recovery_start_time, monitors>>
              ELSE IF ~c.res.in_progress
              THEN /\ ret' = Outcome(Return("resume_monitoring", FALSE,
                                            Str("No recovery in progress.")))
                   /\ stateFile' = c.file
                   /\ reloadOk /\ saveOk
                   /\ io_failures' = io_failures + Fails(loadOk) + Fails(clearOk)
                   /\ UNCHANGED <<recovery_status, recovery_start_time, monitors>>
              ELSE /\ c.res.phase = "" => saveOk
                   /\ io_failures' = io_failures + Fails(reloadOk) + Fails(saveOk)
                   /\ recovery_start_time' = start
                   /\ recovery_status' =
                         Status("running", c.res.message, Empty, c.res.phase)
                   /\ stateFile' = SetStatusFile(c.file, start, c.res.phase, saveOk)
                   /\ monitors' = StartThread(NewSlot)
                   /\ ret' = Outcome(Return("resume_monitoring", TRUE,
                                            Str("Resumed monitoring recovery.")))
    /\ UNCHANGED <<auto_launched, now, fg, launches>>

\* POST /api/recovery/resume, or the resume branch of run_cli
ResumeMonitoring == ResumeMonitoringOn(Responses)

\* clear_recovery()
ClearRecovery ==
    /\ UNCHANGED <<sr, recovery_lock, calls, wire>>
    /\ fg = "idle"
    /\ \E ok \in IO(stateFile.exists, 0) :
          /\ stateFile' = ClearState(stateFile, ok)
          /\ io_failures' = io_failures + Fails(ok)
    /\ recovery_status' = IdleStatus
    /\ recovery_start_time' = None
    /\ ret' = Outcome(Return("clear_recovery", TRUE, Str("Recovery state cleared.")))
    /\ UNCHANGED <<auto_launched, now, monitors, fg, launches>>

\* a manual launch that also marks the status launched
LaunchDesktopMarks ==
    /\ UNCHANGED <<sr, recovery_lock, calls, wire>>
    /\ fg = "idle"
    /\ \E launched \in BOOLEAN :
       \E ok \in IO(launched /\ stateFile.exists, 0) :
          IF launched
          THEN /\ stateFile' = ClearState(stateFile, ok)
               /\ io_failures' = io_failures + Fails(ok)
               /\ recovery_status' = LaunchedStatus
               /\ ret' = Outcome(Return("launch_desktop", TRUE,
                                        Str("Divi Desktop launched.")))
          ELSE /\ ret' = Outcome(Return("launch_desktop", FALSE,
                                        Str("Could not launch Divi Desktop")))
               /\ UNCHANGED <<stateFile, io_failures, recovery_status>>
    /\ UNCHANGED <<recovery_start_time, auto_launched, now, monitors, fg, launches>>

\* launch_desktop()
LaunchDesktop ==
    /\ UNCHANGED <<sr, recovery_lock, calls, wire>>
    /\ fg = "idle"
    /\ \E launched \in BOOLEAN :
       \E ok \in IO(launched /\ stateFile.exists, 0) :
          IF launched
          THEN /\ stateFile' = ClearState(stateFile, ok)
               /\ io_failures' = io_failures + Fails(ok)
               /\ ret' = Outcome(Return("launch_desktop", TRUE,
                                        Str("Divi Desktop launched.")))
          ELSE /\ ret' = Outcome(Return("launch_desktop", FALSE,
                                        Str("Could not launch Divi Desktop")))
               /\ UNCHANGED <<stateFile, io_failures>>
    /\ UNCHANGED <<recovery_status, recovery_start_time, auto_launched, now, monitors,
                   fg, launches>>

\* a character that cannot be encoded for the command line of a process
\* (a lone surrogate, which json.loads makes of "\ud800")
Unencodable == {"U+D800"}

\* the seed phrases passed to start_recovery, word by word: the caller has
\* made sure of nothing but that the phrase is not empty
Mnemonics == { <<"abandon", " ", "ability">>, <<"abandon", " ", "U+D800">> }

\* the characters of s that cannot be encoded
Offending(s) == {i \in 1..Len(s) : s[i] \in Unencodable}

\* whether subprocess.Popen(command) can succeed: not when an argument
\* cannot be encoded
Spawns(mnemonic_str) == IF Offending(mnemonic_str) = {} THEN BOOLEAN ELSE {FALSE}

\* str(e) of the exception that subprocess.Popen(command) raises: an
\* OSError names the executable; the UnicodeEncodeError of an argument
\* quotes the character that cannot be encoded and its position
PopenError(mnemonic_str) ==
    IF Offending(mnemonic_str) = {}
    THEN Str("[Errno 13] Permission denied: daemon_path")
    ELSE LET i == CHOOSE i \in Offending(mnemonic_str) :
                     \A j \in Offending(mnemonic_str) : i <= j
         IN  << "'utf-8' codec can't encode character ", mnemonic_str[i],
                " in position ", ToString(i), ": surrogates not allowed" >>

\* DiviRPC.is_responsive() when getinfo is answered by r
IsResponsive(r) == r.kind = "ok"

\* one answer of each kind, for the calls that look at the kind only
Answers == {Success(0, 0), RPCError(Str("Loading block index")), RPCConnectionError}

\* start_recovery(): reset the flag, locate the daemon binary, read the
\* RPC configuration and, if a daemon is responsive, set the stopping
\* status and send it the stop
StartRecovery ==
    /\ UNCHANGED <<recovery_lock, calls, wire>>
    /\ fg = "idle"
    /\ \E i \in MonitorIds : FreeSlot(i)
    /\ auto_launched' = FALSE
    /\ launches' = 0
    /\ \E mnemonic_str \in Mnemonics :
       \E found \in BOOLEAN :
       \E conf \in Outcomes(found) :
       \E r \in IF found /\ conf THEN Answers ELSE {RPCConnectionError} :
       \E saveOk \in IO(found /\ conf /\ IsResponsive(r), 0) :
          /\ io_failures' = io_failures + Fails(saveOk)
          /\ IF ~found
             THEN /\ ret' = Outcome(Return("start_recovery", FALSE, Str("daemon not found")))
                  /\ UNCHANGED <<recovery_status, stateFile, fg, sr>>
             ELSE IF conf /\ IsResponsive(r)
             THEN /\ recovery_status' =
                         Status("running", Str("Stopping existing daemon..."), Empty, "stopping")
                  /\ stateFile' = SetStatusFile(stateFile, recovery_start_time,
                                                "stopping", saveOk)
                  /\ fg' = "sr_stop"
                  /\ sr' = [kind |-> r.kind, polls |-> 0,
                            state |-> recovery_status.state, mnemonic |-> mnemonic_str]
                  /\ ret' = NoReturn
             ELSE /\ fg' = "sr_spawn"
                  /\ sr' = [kind |-> r.kind, polls |-> 0,
                            state |-> recovery_status.state, mnemonic |-> mnemonic_str]
                  /\ ret' = NoReturn
                  /\ UNCHANGED <<recovery_status, stateFile>>
    /\ UNCHANGED <<recovery_start_time, now, monitors>>

\* a wait that goes on to the spawn when the old daemon has not stopped
StartRecoveryStopWaitGoesOn ==
    /\ UNCHANGED <<recovery_lock, calls, wire>>
    /\ fg = "sr_stop"
    /\ \E r \in Answers :
          /\ sr' = [sr EXCEPT !.kind = r.kind, !.polls = sr.polls + 1]
          /\ fg' = IF ~IsResponsive(r) \/ sr.polls + 1 >= stop_attempts
                   THEN "sr_spawn" ELSE "sr_stop"
          /\ ret' = NoReturn
    /\ UNCHANGED <<recovery_status, recovery_start_time, auto_launched, stateFile, now,
                   monitors, launches, io_failures>>

\* start_recovery(): one poll of is_responsive after the stop; the 15th
\* that still finds the daemon responsive ends the call
StartRecoveryStopWait ==
    /\ UNCHANGED <<recovery_lock, calls, wire>>
    /\ fg = "sr_stop"
    /\ \E r \in Answers :
          IF ~IsResponsive(r)
          THEN /\ fg' = "sr_spawn"
               /\ sr' = [sr EXCEPT !.kind = r.kind, !.polls = sr.polls + 1]
               /\ ret' = NoReturn
          ELSE IF sr.polls + 1 < stop_attempts
          THEN /\ sr' = [sr EXCEPT !.kind = r.kind, !.polls = sr.polls + 1]
               /\ ret' = NoReturn
               /\ UNCHANGED fg
          ELSE /\ fg' = "idle"
               /\ sr' = NoCall
               /\ ret' = Outcome(Return("start_recovery", FALSE,
                                 Str("Could not stop existing daemon within 30 seconds.")))
    /\ UNCHANGED <<recovery_status, recovery_start_time, auto_launched, stateFile, now,
                   monitors, launches, io_failures>>

\* a failed Popen that is also reported through the status
StartRecoverySpawnError ==
    /\ UNCHANGED <<recovery_lock, calls, wire>>
    /\ fg = "sr_spawn"
    /\ \E spawned \in Spawns(sr.mnemonic) :
       \E saveOk \in IO(spawned, 0) :
          /\ io_failures' = io_failures + Fails(saveOk)
          /\ IF spawned
             THEN /\ recovery_start_time' = now
                  /\ recovery_status' =
                         Status("running",
                                Str("Daemon started. Waiting for RPC to become available..."),
                                Empty, "starting")
                  /\ stateFile' = SetStatusFile(stateFile, now, "starting", saveOk)
                  /\ fg' = "sr_wait"
                  /\ sr' = [sr EXCEPT !.kind = ""]
                  /\ ret' = NoReturn
             ELSE /\ fg' = "idle"
                  /\ sr' = NoCall
                  /\ ret' = Outcome(Return("start_recovery", FALSE,
                                           Str("Failed to start daemon: ")
                                               \o PopenError(sr.mnemonic)))
                  /\ recovery_status' =
                         Status("error", Str("Failed to start daemon"), Empty, "")
                  /\ UNCHANGED <<recovery_start_time, stateFile>>
    /\ UNCHANGED <<auto_launched, now, monitors, launches>>

\* start_recovery(): subprocess.Popen, start time, first starting status
StartRecoverySpawn ==
    /\ UNCHANGED <<recovery_lock, calls, wire>>
    /\ fg = "sr_spawn"
    /\ \E spawned \in Spawns(sr.mnemonic) :
       \E saveOk \in IO(spawned, 0) :
          /\ io_failures' = io_failures + Fails(saveOk)
          /\ IF spawned
             THEN /\ recovery_start_time' = now
                  /\ recovery_status' =
                         Status("running",
                                Str("Daemon started. Waiting for RPC to become available..."),
                                Empty, "starting")
                  /\ stateFile' = SetStatusFile(stateFile, now, "starting", saveOk)
                  /\ fg' = "sr_wait"
                  /\ sr' = [sr EXCEPT !.kind = ""]
                  /\ ret' = NoReturn
             ELSE /\ fg' = "idle"
                  /\ sr' = NoCall
                  /\ ret' = Outcome(Return("start_recovery", FALSE,
                                           Str("Failed to start daemon: ")
                                               \o PopenError(sr.mnemonic)))
                  /\ UNCHANGED <<recovery_status, recovery_start_time, stateFile>>
    /\ UNCHANGED <<auto_launched, now, monitors, launches>>

\* a start that leaves the monitoring to a later resume when wallet.dat
\* has not appeared
StartRecoveryMonitorNeedsWallet ==
    /\ UNCHANGED <<recovery_lock, calls, wire>>
    /\ fg = "sr_wait"
    /\ fg' = "idle"
    /\ sr' = NoCall
    /\ recovery_status' =
          Status("running", Str("Daemon started. Monitoring recovery..."), Empty, "starting")
    /\ \E saveOk \in IO(TRUE, 0) :
          /\ stateFile' = SetStatusFile(stateFile, recovery_start_time, "starting", saveOk)
          /\ io_failures' = io_failures + Fails(saveOk)
    /\ \E rpc_ready \in BOOLEAN, wallet_found \in BOOLEAN :
          /\ monitors' = IF wallet_found THEN StartThread(NewSlot) ELSE monitors
          /\ ret' = [Outcome(Return("start_recovery", TRUE,
                                    Str("Recovery started. Daemon launched.")))
                       EXCEPT !.rpc_ready = rpc_ready, !.wallet_found = wallet_found]
    /\ UNCHANGED <<recovery_start_time, auto_launched, now, launches>>

\* a start that fails when the RPC has not become available
StartRecoveryMonitorNeedsRPC ==
    /\ UNCHANGED <<recovery_lock, calls, wire>>
    /\ fg = "sr_wait"
    /\ fg' = "idle"
    /\ sr' = NoCall
    /\ \E rpc_ready \in BOOLEAN, wallet_found \in BOOLEAN :
          IF rpc_ready
          THEN /\ recovery_status' =
                      Status("running", Str("Daemon started. Monitoring recovery..."),
                             Empty, "starting")
               /\ \E saveOk \in IO(TRUE, 0) :
                     /\ stateFile' = SetStatusFile(stateFile, recovery_start_time,
                                                   "starting", saveOk)
                     /\ io_failures' = io_failures + Fails(saveOk)
               /\ monitors' = StartThread(NewSlot)
               /\ ret' = [Outcome(Return("start_recovery", TRUE,
                                         Str("Recovery started. Daemon launched.")))
                            EXCEPT !.rpc_ready = rpc_ready, !.wallet_found = wallet_found]
          ELSE /\ ret' = Outcome(Return("start_recovery", FALSE,
                                        Str("RPC did not become available")))
               /\ UNCHANGED <<recovery_status, stateFile, io_failures, monitors>>
    /\ UNCHANGED <<recovery_start_time, auto_launched, now, launches>>

\* start_recovery(): the waits for the RPC and for wallet.dat, whatever
\* they find, then the second starting status, the thread, the return
StartRecoveryMonitor ==
    /\ UNCHANGED <<recovery_lock, calls, wire>>
    /\ fg = "sr_wait"
    /\ recovery_status' =
          Status("running", Str("Daemon started. Monitoring recovery..."), Empty, "starting")
    /\ \E saveOk \in IO(TRUE, 0) :
          /\ stateFile' = SetStatusFile(stateFile, recovery_start_time, "starting", saveOk)
          /\ io_failures' = io_failures + Fails(saveOk)
    /\ monitors' = StartThread(NewSlot)
    /\ fg' = "idle"
    /\ sr' = NoCall
    /\ \E rpc_ready \in BOOLEAN, wallet_found \in BOOLEAN :
          ret' = [Outcome(Return("start_recovery", TRUE,
                                 Str("Recovery started. Daemon launched.")))
                    EXCEPT !.rpc_ready = rpc_ready, !.wallet_found = wallet_found]
    /\ UNCHANGED <<recovery_start_time, auto_launched, now, launches>>

\* ------------------------------------------------------------- environment
\* the clock advances
Tick ==
    /\ UNCHANGED <<sr, recovery_lock, calls, wire>>
    /\ now < MaxTime
    /\ now' = now + 1
    /\ ret' = NoReturn
    /\ UNCHANGED <<recovery_status, recovery_start_time, auto_launched, stateFile,
                   monitors, fg, launches, io_failures>>

\* the process exits and the tool is started again: the module globals
\* are back at their initial values, the daemon threads are gone
Restart ==
    /\ UNCHANGED <<recovery_lock, calls, wire>>
    /\ sr' = NoCall
    /\ recovery_status' = IdleStatus
    /\ recovery_start_time' = None
    /\ auto_launched' = FALSE
    /\ monitors' = [i \in MonitorIds |-> NoMonitor]
    /\ fg' = "idle"
    /\ ret' = NoReturn
    /\ UNCHANGED <<stateFile, now, launches, io_failures>>

Next ==
    \/ MonitorBegins
    \/ MonitorPolls
    \/ MonitorLaunches
    \/ CheckInProgress
    \/ GetRecoveryStatus
    \/ ResumeMonitoring
    \/ ClearRecovery
    \/ LaunchDesktop
    \/ StartRecovery
    \/ StartRecoveryStopWait
    \/ StartRecoverySpawn
    \/ StartRecoveryMonitor
    \/ Tick
    \/ Restart

Spec == Init /\ [][Next]_vars

\* a process in which start_recovery and resume_monitoring start a thread
\* while earlier ones are alive; the clock stands still, no file
\* operation fails, and the getinfo of a loop gets one answer of each kind
\* that takes the loop somewhere else: a sync in progress, a finished
\* sync, a scan, a connection failure
InitRace == Start(MaxRacers) /\ io_failures = MaxIOFailures

RaceAnswers ==
    {Success(0, 1), Success(1, 1), RPCError(Str("Scanning")), RPCConnectionError}

NextRace ==
    \/ MonitorBegins
    \/ MonitorPollsOn(RaceAnswers)
    \/ MonitorLaunches
    \/ CheckInProgress
    \/ GetRecoveryStatus
    \/ ResumeMonitoring
    \/ ClearRecovery
    \/ LaunchDesktop
    \/ StartRecovery
    \/ StartRecoveryStopWait
    \/ StartRecoverySpawn
    \/ StartRecoveryMonitor
    \/ Restart

SpecRace == InitRace /\ [][NextRace]_vars

\* a process that stays alive while no getinfo of a monitor loop reaches
\* the daemon (no poll ever gets to the scanning branch); the threads are
\* daemon threads that the interpreter keeps scheduling, and every getinfo
\* returns or times out
NextUnreachable ==
    \/ MonitorBegins
    \/ MonitorPollsOn(ConnectionProbes)
    \/ CheckInProgress
    \/ GetRecoveryStatus
    \/ ResumeMonitoring
    \/ ClearRecovery
    \/ LaunchDesktop
    \/ StartRecovery
    \/ StartRecoveryStopWait
    \/ StartRecoverySpawn
    \/ StartRecoveryMonitor
    \/ Tick

Scheduled ==
    \A i \in 1..MaxMonitors :
        /\ WF_vars(MonitorBegin(i))
        /\ WF_vars(MonitorPollOn(i, ConnectionProbes))

SpecUnreachable == Init /\ [][NextUnreachable]_vars /\ Scheduled

\* ---------------------------------------------------------------- one poll
\* One getinfo of a monitor loop from the reply on the wire to the status:
\* the process has returned from a successful start_recovery, its monitor
\* thread has read the RPC configuration, and the endpoint keeps giving
\* the same reply.  No file operation fails.
InitPoll ==
    /\ recovery_status =
          Status("running", Str("Daemon started. Monitoring recovery..."), Empty, "starting")
    /\ recovery_start_time = 1
    /\ auto_launched = FALSE
    /\ stateFile = StateRecord(1, "starting", 1)
    /\ now = 1
    /\ monitors = [i \in 1..MaxMonitors |-> [NoMonitor EXCEPT !.pc = "poll"]]
    /\ fg = "idle"
    /\ ret = NoReturn
    /\ launches = 0
    /\ io_failures = MaxIOFailures
    /\ sr = NoCall
    /\ recovery_lock = NoThread
    /\ calls = [t \in Threads |-> NoAccess]
    /\ wire \in {[stage |-> "reply", reply |-> q, answer |-> RPCConnectionError] :
                   q \in Replies}

\* info = rpc.getinfo(): returns or raises
GetInfo ==
    /\ wire.stage = "reply"
    /\ wire' = [wire EXCEPT !.stage = "outcome", !.answer = RPCCall(wire.reply)]
    /\ UNCHANGED <<recovery_status, recovery_start_time, auto_launched, stateFile, now,
                   monitors, fg, ret, launches, io_failures, sr, recovery_lock, calls>>

\* the body of the loop with that outcome
MonitorPollAnswered ==
    /\ wire.stage = "outcome"
    /\ wire.answer.kind # "raise"
    /\ MonitorPollsOn({wire.answer})

\* an exception the loop does not catch ends the thread
MonitorPollEscapes ==
    /\ wire.stage = "outcome"
    /\ wire.answer.kind = "raise"
    /\ \E i \in MonitorIds :
          /\ monitors[i].pc = "poll"
          /\ monitors' = [monitors EXCEPT ![i].pc = "done", ![i].exit = "exception"]
    /\ UNCHANGED <<recovery_status, recovery_start_time, auto_launched, stateFile, now,
                   fg, ret, launches, io_failures, sr, recovery_lock, calls, wire>>

NextPoll ==
    \/ GetInfo
    \/ MonitorPollAnswered
    \/ MonitorPollEscapes
    \/ MonitorLaunches

SpecPoll == InitPoll /\ [][NextPoll]_vars

\* ------------------------------------------------------------ the lock
\* The accesses to _recovery_status, statement by statement: the writers
\* _set_status and clear_recovery, the readers get_recovery_status and
\* check_recovery_in_progress, run by the foreground and by the monitor
\* threads.

\* the dicts that thread t passes to _set_status: the foreground those of
\* start_recovery, a monitor thread those of its polls and of the
\* auto-launch
StatusUpdates(t) ==
    IF t = 0
    THEN { Status("running", Str("Stopping existing daemon..."), Empty, "stopping"),
           Status("running",
                  Str("Daemon started. Waiting for RPC to become available..."),
                  Empty, "starting"),
           Status("running", Str("Daemon started. Monitoring recovery..."),
                  Empty, "starting") }
    ELSE { PollOutcome(r, cf).status : r \in Responses, cf \in {0, max_failures - 1} }
            \cup { LaunchedStatus }

\* the functions thread t calls, with the dict each assigns
Accesses(t) ==
    { [op |-> "_set_status", arg |-> st] : st \in StatusUpdates(t) }
        \cup (IF t = 0
              THEN { [op |-> op, arg |-> IdleStatus] :
                        op \in {"clear_recovery", "get_recovery_status",
                                "check_recovery_in_progress"} }
              ELSE {})

Writers == {"_set_status", "clear_recovery"}

\* a lock that is handed out while another thread holds it
CanAcquireAlways == TRUE

\* threading.Lock: acquired only when no thread holds it
CanAcquire == recovery_lock = NoThread

\* thread t enters one of the functions, coming from its sleep, its RPC
\* call or its file operations; clear_recovery begins with _clear_state()
LockCall(t) ==
    /\ calls[t].pc = "idle"
    /\ \E a \in Accesses(t) :
          calls' = [calls EXCEPT ![t] =
                       [pc |-> IF a.op = "clear_recovery" THEN "clear" ELSE "acquire",
                        op |-> a.op, arg |-> a.arg, seen |-> Unread]]
    /\ UNCHANGED <<recovery_status, recovery_lock>>

\* what the file operations of the accesses leave alone
LockFileFrame ==
    UNCHANGED <<recovery_status, recovery_lock, recovery_start_time, auto_launched,
                now, monitors, fg, ret, launches, io_failures, sr, wire>>

\* clear_recovery: _clear_state(), before the with block
LockClearState(t) ==
    /\ calls[t].pc = "clear"
    /\ stateFile' = ClearState(stateFile, TRUE)
    /\ calls' = [calls EXCEPT ![t].pc = "acquire"]
    /\ LockFileFrame

\* with _recovery_lock:
LockAcquire(t) ==
    /\ calls[t].pc = "acquire"
    /\ CanAcquire
    /\ recovery_lock' = t
    /\ calls' = [calls EXCEPT ![t].pc = "held"]
    /\ UNCHANGED recovery_status

\* _recovery_status = {...}
LockWrite(t) ==
    /\ calls[t].pc = "held"
    /\ calls[t].op \in Writers
    /\ recovery_status' = calls[t].arg
    /\ calls' = [calls EXCEPT ![t].pc = "release"]
    /\ UNCHANGED recovery_lock

\* status = dict(_recovery_status)
LockCopy(t) ==
    /\ calls[t].pc = "held"
    /\ calls[t].op = "get_recovery_status"
    /\ calls' = [calls EXCEPT ![t].pc = "release", ![t].seen = recovery_status]
    /\ UNCHANGED <<recovery_status, recovery_lock>>

\* if _recovery_status["state"] == "running":
LockReadState(t) ==
    /\ calls[t].pc = "held"
    /\ calls[t].op = "check_recovery_in_progress"
    /\ calls' = [calls EXCEPT
                    ![t].pc = IF recovery_status.state = "running"
                              THEN "phase" ELSE "release",
                    ![t].seen.state = recovery_status.state]
    /\ UNCHANGED <<recovery_status, recovery_lock>>

\* "phase": _recovery_status["phase"]
LockReadPhase(t) ==
    /\ calls[t].pc = "phase"
    /\ calls' = [calls EXCEPT ![t].pc = "message",
                              ![t].seen.phase = recovery_status.phase]
    /\ UNCHANGED <<recovery_status, recovery_lock>>

\* "message": _recovery_status["message"]
LockReadMessage(t) ==
    /\ calls[t].pc = "message"
    /\ calls' = [calls EXCEPT ![t].pc = "release",
                              ![t].seen.message = recovery_status.message]
    /\ UNCHANGED <<recovery_status, recovery_lock>>

\* a with block that does not give the lock back
Kept(t) == t

\* the holder of the lock once the with block of thread t has ended
Released(t) == NoThread

\* the end of the with block; _set_status goes on to _save_state when it
\* was given a phase
LockRelease(t) ==
    /\ calls[t].pc = "release"
    /\ recovery_lock' = Released(t)
    /\ calls' = [calls EXCEPT ![t] =
                    IF calls[t].op = "_set_status" /\ calls[t].arg.phase # ""
                    THEN [calls[t] EXCEPT !.pc = "save"] ELSE NoAccess]
    /\ UNCHANGED recovery_status

\* _set_status: if phase: _save_state(phase), after the with block
LockSaveState(t) ==
    /\ calls[t].pc = "save"
    /\ stateFile' = SaveState(stateFile, recovery_start_time, calls[t].arg.phase, TRUE)
    /\ calls' = [calls EXCEPT ![t] = NoAccess]
    /\ LockFileFrame

\* what the accesses leave alone
LockFrame ==
    UNCHANGED <<recovery_start_time, auto_launched, stateFile, now, monitors, fg,
                ret, launches, io_failures, sr, wire>>

NextLock ==
    \/ \E t \in Threads : LockCall(t) /\ LockFrame
    \/ \E t \in Threads : LockAcquire(t) /\ LockFrame
    \/ \E t \in Threads : LockWrite(t) /\ LockFrame
    \/ \E t \in Threads : LockCopy(t) /\ LockFrame
    \/ \E t \in Threads : LockReadState(t) /\ LockFrame
    \/ \E t \in Threads : LockReadPhase(t) /\ LockFrame
    \/ \E t \in Threads : LockReadMessage(t) /\ LockFrame
    \/ \E t \in Threads : LockRelease(t) /\ LockFrame
    \/ \E t \in Threads : LockClearState(t)
    \/ \E t \in Threads : LockSaveState(t)

SpecLock == Init /\ [][NextLock]_vars

\* ------------------------------------------------------------------ claims
Terminal == {"complete", "error", "launched"}

\* a monitor thread took a step of its loop
Polled(i) ==
    /\ monitors[i].pc = "poll"
    /\ monitors'[i] # monitors[i]
    /\ monitors'[i].pc # "none"

\* C1: a poll of the monitor loop puts the state into error exactly when it
\* is the 6th connection failure in a row; any answer in between (a result
\* or an RPCError) puts the counter back to 0 and leaves the state running
\* (or complete), so that five more failures do not produce error.
C1_SixConsecutiveFailures ==
    [][\A i \in MonitorIds :
          Polled(i) =>
            /\ monitors'[i].consecutive_failures = monitors'[i].run
            /\ recovery_status'.state = "error" <=> monitors'[i].run = max_failures
            /\ monitors'[i].pc = "done" /\ monitors'[i].exit = "timeout"
                  <=> monitors'[i].run = max_failures
            /\ monitors'[i].run = 0 =>
                  recovery_status'.state \in {"running", "complete"}]_vars

C1_Witness ==
    \E i \in MonitorIds :
        /\ monitors[i].exit = "timeout"
        /\ monitors[i].run = max_failures
        /\ recovery_status.state = "error"

\* C2 as stated: the monitor puts the state into error only when its 6 most
\* recent polls were all connection failures, on no other path.
C2_ErrorOnlyAfterSixFailures ==
    \A i \in MonitorIds :
        monitors[i].exit # "" => monitors[i].run = max_failures

\* C2: the monitor puts the state into error when its 6 most recent
\* polls were all connection failures (an RPCError resets the counter as a
\* result does), or, before its first poll, when it cannot read the RPC
\* configuration; nothing else produces the state error.
C2_ErrorPaths ==
    /\ recovery_status.state = "error" => \E i \in MonitorIds : monitors[i].exit # ""
    /\ \A i \in MonitorIds :
          /\ monitors[i].consecutive_failures = monitors[i].run
          /\ monitors[i].exit = "timeout" => monitors[i].run = max_failures
          /\ monitors[i].exit = "config" => monitors[i].run = 0
          /\ monitors[i].exit # "" => monitors[i].pc = "done"

C2_Witness ==
    /\ recovery_status.state = "error"
    /\ recovery_status.phase = ""
    /\ \E i \in MonitorIds : monitors[i].exit = "config"

\* C3: between one start_recovery and the next, the auto-launch path
\* launches Divi Desktop at most once.
C3_AtMostOneAutoLaunch == launches <= 1

\* C4: when the auto-launch succeeds, the monitor loop that made it stops.
C4_LoopStopsAfterLaunch ==
    [][\A i \in MonitorIds :
          (/\ monitors[i].pc = "launch"
           /\ launches' = launches + 1
           /\ recovery_status'.state = "launched")
              => monitors'[i].pc = "done"]_vars

\* C5 as stated: once the state is complete, error or launched, only
\* clear_recovery changes it (the in-memory state does not outlive the
\* process).
C5_TerminalUntilClear ==
    [][recovery_status.state \in Terminal =>
          \/ recovery_status'.state = recovery_status.state
          \/ ClearRecovery
          \/ Restart]_vars

\* C5: once the state is complete, error or launched, launch_desktop,
\* check_recovery_in_progress, get_recovery_status and the waits of
\* start_recovery never change it; it is left by clear_recovery, by
\* start_recovery or resume_monitoring setting running for a new run, and by
\* the status update of a monitor loop that is still polling.
C5_TerminalLeftBy ==
    [][recovery_status.state \in Terminal =>
          \/ recovery_status'.state = recovery_status.state
          \/ ClearRecovery
          \/ Restart
          \/ (StartRecovery \/ StartRecoverySpawn \/ StartRecoveryMonitor
                \/ ResumeMonitoring) /\ recovery_status'.state = "running"
          \/ MonitorBegins \/ MonitorPolls \/ MonitorLaunches]_vars

\* an error state has been left for running by a new start_recovery
C5_Witness ==
    /\ recovery_status.state = "running"
    /\ recovery_status.phase = "starting"
    /\ stateFile.exists /\ stateFile.phase = "error"

\* C6 as stated: every change of the state is one of idle -> running,
\* running -> complete, running -> error, complete -> launched, or the
\* clear back to idle.
C6_Edges ==
    [][recovery_status'.state # recovery_status.state =>
          \/ <<recovery_status.state, recovery_status'.state>> \in
                { <<"idle", "running">>, <<"running", "complete">>,
                  <<"running", "error">>, <<"complete", "launched">> }
          \/ ClearRecovery
          \/ Restart]_vars

\* C6: every change of the state is made by the operation that owns
\* the target state, whatever the state before: idle by clear_recovery;
\* running by start_recovery, resume_monitoring or a monitor poll (also from
\* complete, error and launched); complete by a monitor poll; error by a
\* monitor poll or the monitor's reading of the RPC configuration; launched
\* by the monitor's auto-launch, which follows its scanning poll (never by
\* launch_desktop, which leaves a complete state complete).
C6_EdgesByOperation ==
    [][recovery_status'.state # recovery_status.state =>
          \/ recovery_status'.state = "idle" /\ (ClearRecovery \/ Restart)
          \/ /\ recovery_status'.state = "running"
             /\ \/ StartRecovery \/ StartRecoverySpawn \/ StartRecoveryMonitor
                \/ ResumeMonitoring
                \/ MonitorPolls
          \/ recovery_status'.state = "complete" /\ MonitorPolls
          \/ recovery_status'.state = "error" /\ (MonitorPolls \/ MonitorBegins)
          \/ recovery_status'.state = "launched" /\ MonitorLaunches]_vars

\* the auto-launch has taken the state from running to launched
C6_Witness ==
    /\ recovery_status.state = "launched"
    /\ launches = 1
    /\ auto_launched


\* ---- C7
RunningPhases ==
    {"starting", "stopping", "loading_blocks", "recovering_wallet",
     "scanning", "verifying", "syncing"}

StatePhase(allowed) ==
    /\ recovery_status.state = "running" => recovery_status.phase \in allowed
    /\ recovery_status.state = "complete" => recovery_status.phase = "complete"
    /\ recovery_status.state = "launched" => recovery_status.phase = "launched"
    /\ recovery_status.state = "idle" => recovery_status.phase = ""

\* C7 as stated: running carries one of the seven running phases,
\* complete carries "complete", launched carries "launched", idle carries
\* the empty phase.
C7_StatePhase == StatePhase(RunningPhases)

\* C7: every status the program sets obeys: complete carries "complete",
\* launched carries "launched", idle carries the empty phase, and running
\* carries one of the seven running phases or the empty phase (a poll
\* answered by an RPCError with an unrecognised message), except that
\* resume_monitoring sets running with whatever phase the persisted record
\* held when the probe gave it nothing better.
C7_StatePhaseSet ==
    [][recovery_status' # recovery_status =>
          /\ StatePhase(RunningPhases \cup {""})'
             \/ /\ ResumeMonitoring
                /\ stateFile.exists
                /\ recovery_status'.state = "running"
                /\ recovery_status'.phase = stateFile.phase
                /\ recovery_status'.phase \in {"error", "complete", "launched"}
      ]_vars

\* a poll has set running with the empty phase
C7_Witness ==
    /\ recovery_status.state = "running"
    /\ recovery_status.phase = ""
    /\ recovery_status.message = Str("Safe mode")
    /\ \E i \in MonitorIds : monitors[i].pc = "poll"

\* ---- C8
\* C8 as stated: outside of a foreground call in progress, and with no
\* persistence failure so far, a status with a non-empty phase has a
\* persisted record, and the record holds that phase.
C8_RecordMatchesStatus ==
    recovery_status.phase # "" /\ io_failures = 0 /\ fg = "idle" =>
        stateFile.exists /\ stateFile.phase = recovery_status.phase

\* C8: a status update that carries a non-empty phase p writes, in the same
\* update and unless a file operation of that update fails, the record
\* {start_time: _recovery_start_time, phase: p, timestamp: now}; the only
\* updates that do not leave that record behind are the monitor's update to
\* complete and the auto-launch's update to launched, which delete the
\* record right after writing it.
C8_WriteThrough ==
    [][/\ recovery_status' # recovery_status
       /\ recovery_status'.phase # ""
       /\ io_failures' = io_failures
       => \/ stateFile' = StateRecord(recovery_start_time',
                                      recovery_status'.phase, now)
          \/ /\ recovery_status'.phase \in {"complete", "launched"}
             /\ stateFile' = NoFile
             /\ MonitorPolls \/ MonitorLaunches
      ]_vars

\* a sync in progress whose record was written by the latest update, after
\* the recovery started
C8_Witness ==
    /\ recovery_status.state = "running"
    /\ recovery_status.phase = "syncing"
    /\ io_failures = 0
    /\ now > recovery_start_time
    /\ stateFile = StateRecord(recovery_start_time, "syncing", now)

\* ---- C9
Removed == stateFile.exists /\ ~stateFile'.exists

\* a probe of check_recovery_in_progress, alone or inside resume_monitoring
ProbedOn(R) == CheckInProgressOn(R) \/ ResumeMonitoringOn(R)

\* the probe answer r makes check_recovery_in_progress leave the record
ProbeKeepsRecord(r) ==
    CheckRecoveryInProgress("check_recovery_in_progress", r, TRUE, TRUE).file = stateFile

\* C9 as stated: the record is removed only by a launch of Divi Desktop
\* once the state is complete, by clear_recovery, or by a probe that could
\* not reach the daemon.
C9_RemovedInThreeSituations ==
    [][Removed =>
          \/ recovery_status.state = "complete"
             /\ (LaunchDesktop \/ MonitorLaunches)
          \/ ClearRecovery
          \/ ProbedOn(ConnectionProbes)
      ]_vars

\* C9: the record is removed only by the monitor's poll that sets
\* complete, by the auto-launch that sets launched, by a launch_desktop
\* that succeeds (whatever the state), by clear_recovery, or by a probe of
\* check_recovery_in_progress that could not reach the daemon or that got a
\* normal answer while the record's phase was complete, error or empty;
\* every other step leaves an existing record in place or overwrites it.
C9_RemovedOnlyBy ==
    [][Removed =>
          \/ MonitorPolls /\ recovery_status'.state = "complete"
          \/ MonitorLaunches /\ recovery_status'.state = "launched"
          \/ LaunchDesktop /\ ret'.success
          \/ ClearRecovery
          \/ /\ ProbedOn(Responses)
             /\ recovery_status.state # "running"
             /\ \A r \in Responses :
                   \/ r.kind = "conn"
                   \/ r.kind = "ok" /\ stateFile.phase \in {"complete", "error", ""}
                   \/ ProbeKeepsRecord(r)
      ]_vars

\* the monitor has set complete and removed the record, and Divi Desktop
\* was not launched
C9_Witness ==
    /\ recovery_status.state = "complete"
    /\ ~stateFile.exists
    /\ launches = 0
    /\ ret.op # "launch_desktop"
    /\ \E i \in MonitorIds : monitors[i].pc = "done"

\* ---- C10
\* the module globals of a process that has just started
FreshProcess ==
    /\ recovery_status = IdleStatus
    /\ recovery_start_time = None
    /\ ~auto_launched
    /\ fg = "idle"
    /\ \A i \in MonitorIds : monitors[i] = NoMonitor

\* C10: when a process that has just started finds a persisted record
\* {start_time: T, phase, timestamp: T2} and the getinfo probe is answered
\* by an RPCError, check_recovery_in_progress returns in_progress true with
\* elapsed = now - T, whatever T2 is, and leaves the record as it is.
C10_ResumeRoundTrip ==
    FreshProcess /\ stateFile.exists =>
        \A m \in Messages :
            LET c == CheckRecoveryInProgress("check_recovery_in_progress",
                                             RPCError(m), TRUE, TRUE)
            IN  /\ ~c.res.raised
                /\ c.res.in_progress
                /\ c.res.elapsed = now - stateFile.start_time
                /\ c.file = stateFile

\* ---- C11
\* C11: when a record exists and the getinfo probe of
\* check_recovery_in_progress fails to connect (the probe is made when the
\* in-memory state is not running, and the file operations of the call
\* succeed), the call returns in_progress false and the record is gone;
\* resume_monitoring then returns success false, changes no status and
\* starts no monitor loop.
C11_CrashDetection ==
    [][Consulted /\ io_failures' = io_failures =>
          /\ CheckInProgressOn(ConnectionProbes) =>
                /\ ret' = Outcome(NotInProgress("check_recovery_in_progress"))
                /\ ~stateFile'.exists
          /\ ResumeMonitoringOn(ConnectionProbes) =>
                /\ ret'.op = "resume_monitoring" /\ ~ret'.success /\ ~ret'.raised
                /\ ~stateFile'.exists
                /\ monitors' = monitors
                /\ recovery_status' = recovery_status
      ]_vars

\* a resume_monitoring has failed in a process that timed out on the
\* daemon, and the error record is gone
C11_Witness ==
    /\ ret.op = "resume_monitoring" /\ ~ret.success
    /\ recovery_status.state = "error" /\ recovery_status.phase = "error"
    /\ \E i \in MonitorIds : monitors[i].exit = "timeout"
    /\ ~stateFile.exists
    /\ io_failures = 0

\* ---- C12
\* C12: when a record exists whose phase is complete, launched or error
\* and the getinfo probe answers normally, check_recovery_in_progress
\* deletes the record and returns in_progress false, the same for each of
\* the three phases.
C12_TerminalRecordCleared ==
    Consulted /\ stateFile.phase \in Terminal =>
        \A r \in Responses :
            r.kind = "ok" =>
                LET c == CheckRecoveryInProgress("check_recovery_in_progress",
                                                 r, TRUE, TRUE)
                IN  /\ c.res = NotInProgress("check_recovery_in_progress")
                    /\ c.file = NoFile

\* ---- C13
\* the phase the monitor loop gives to the answer r
LivePhase(r) == PollOutcome(r, 0).status.phase

\* C13: for every answer of the probe other than a connection failure,
\* the phase that check_recovery_in_progress reports for a recovery in
\* progress is the phase the monitor loop gives to that answer, and the
\* phase of the record only when the loop gives none.
C13_ProbePhaseIsLivePhase ==
    Consulted =>
        \A r \in Responses :
            LET c == CheckRecoveryInProgress("check_recovery_in_progress",
                                             r, TRUE, TRUE)
            IN  r.kind # "conn" /\ c.res.in_progress =>
                    c.res.phase = IF LivePhase(r) # "" THEN LivePhase(r)
                                  ELSE stateFile.phase

\* ---- C14
\* C14: a resume_monitoring that succeeds with a record on disk (and no
\* file operation failing) sets the start time of the operation to the
\* start_time of that record, and the records the monitor writes carry the
\* start time of the operation, which the monitor never changes.
C14_ResumeKeepsStartTime ==
    [][/\ ResumeMonitoring /\ ret'.success /\ stateFile.exists
          /\ io_failures' = io_failures
          => /\ recovery_start_time' = stateFile.start_time
             /\ stateFile'.start_time = stateFile.start_time
       /\ MonitorPolls \/ MonitorLaunches
          => /\ recovery_start_time' = recovery_start_time
             /\ stateFile'.exists /\ stateFile' # stateFile
                   => stateFile'.start_time = recovery_start_time
      ]_vars

\* ---- C15
\* C15: is_responsive is true exactly when getinfo does not fail to
\* connect: start_recovery takes the daemon for responsive, and its wait
\* takes the daemon for still there, on a result and on an RPCError alike,
\* and for gone on a connection failure only.
C15_ResponsiveIffConnected ==
    [][/\ StartRecovery /\ sr'.kind # "" =>
             (fg' = "sr_stop" <=> sr'.kind # "conn")
       /\ StartRecoveryStopWait =>
             (fg' = "sr_spawn" <=> sr'.kind = "conn")
      ]_vars

\* ---- C16
\* C16: when start_recovery spawns the daemon, the latest answer of the
\* RPC endpoint to the call was a connection failure, so no earlier daemon
\* is alive at that moment.
C16_SpawnAfterConnectionFailure ==
    [][StartRecoverySpawn /\ fg' = "sr_wait" => sr.kind = "conn"]_vars

\* ---- C17
CouldNotStop == Str("Could not stop existing daemon within 30 seconds.")

\* C17: start_recovery's wait for the old daemon goes on to the spawn only
\* on a poll that finds the daemon not responsive; when the 15th poll
\* still finds it responsive, the call returns success false, and neither
\* a daemon is spawned (the start time stays unset or as it was) nor a
\* monitor loop started.
C17_StopWaitGivesUp ==
    [][StartRecoveryStopWait =>
          /\ sr.polls < stop_attempts
          /\ fg' = "sr_spawn" => ~IsResponsive([kind |-> sr'.kind])
          /\ fg' = "sr_stop" => sr'.kind = "ok" /\ sr'.polls < stop_attempts
          /\ fg' = "idle" =>
                /\ sr.polls = stop_attempts - 1
                /\ ret' = Outcome(Return("start_recovery", FALSE, CouldNotStop))
                /\ monitors' = monitors
                /\ recovery_start_time' = recovery_start_time
      ]_vars

\* start_recovery has given up on a daemon that stayed responsive
C17_Witness ==
    /\ ret.op = "start_recovery" /\ ~ret.success
    /\ ret.message = CouldNotStop
    /\ fg = "idle"
    /\ \A i \in MonitorIds : monitors[i].pc \in {"none", "done"}

\* ---- C18
\* C18 as stated: start_recovery returns success false only when the
\* daemon binary is not found or the spawn fails, and success true in
\* every other case.
C18_TwoFailures ==
    [][ret'.op = "start_recovery" =>
          (~ret'.success <=> StartRecovery \/ StartRecoverySpawn)]_vars

\* C18: start_recovery returns success false in three cases, each with its
\* message: the daemon binary is not found, the old daemon is still
\* responsive after the 15 polls that follow the stop, the spawn fails;
\* once the daemon is spawned it returns success true whatever the waits
\* for the RPC and for wallet.dat find.
C18_ThreeFailures ==
    [][ret'.op = "start_recovery" =>
          /\ ~ret'.success <=>
                StartRecovery \/ StartRecoveryStopWait \/ StartRecoverySpawn
          /\ ret'.success <=> StartRecoveryMonitor
          /\ StartRecovery => ret'.message = Str("daemon not found")
          /\ StartRecoveryStopWait => ret'.message = CouldNotStop
          /\ StartRecoverySpawn => Head(ret'.message) = "Failed to start daemon: "
      ]_vars

\* start_recovery has returned success although the RPC never became
\* available and wallet.dat was not found
C18_Witness ==
    /\ ret.op = "start_recovery" /\ ret.success
    /\ ~ret.rpc_ready /\ ~ret.wallet_found
    /\ recovery_status.phase = "starting"

\* ---- C19
\* C19: a start_recovery that fails because the daemon binary is not found
\* or because the spawn fails leaves the state of the status as it was
\* when the call began, also when it has stopped a running daemon first.
C19_FailedStartKeepsState ==
    [][ret'.op = "start_recovery" /\ ~ret'.success =>
          /\ StartRecovery => recovery_status'.state = recovery_status.state
          /\ StartRecoverySpawn => recovery_status'.state = sr.state
      ]_vars

\* ---- C20
StartingStatus(message) == Status("running", message, Empty, "starting")

\* C20: once the daemon is spawned the status is running/starting, and
\* the call ends by setting running/starting again, starting the monitor
\* loop and returning success true, also when the RPC never became
\* available and wallet.dat was not found; until then nothing else runs in
\* the foreground.
C20_SpawnedStartsMonitor ==
    [][/\ StartRecoverySpawn /\ fg' # "idle" =>
             /\ fg' = "sr_wait"
             /\ recovery_start_time' = now
             /\ recovery_status' = StartingStatus(
                   Str("Daemon started. Waiting for RPC to become available..."))
       /\ fg = "sr_wait" /\ fg' # fg =>
             /\ StartRecoveryMonitor \/ Restart
             /\ StartRecoveryMonitor =>
                   /\ ret'.op = "start_recovery" /\ ret'.success
                   /\ recovery_status' = StartingStatus(
                         Str("Daemon started. Monitoring recovery..."))
                   /\ \E i \in MonitorIds :
                         /\ FreeSlot(i)
                         /\ monitors' = [monitors EXCEPT ![i] = NewMonitor]
       /\ fg = "sr_wait" /\ fg' = fg =>
             MonitorBegins \/ MonitorPolls \/ MonitorLaunches \/ Tick
       /\ fg = "sr_wait" => \E i \in MonitorIds : FreeSlot(i)
      ]_vars

\* the monitor loop has been started by a start_recovery whose waits
\* found neither the RPC nor wallet.dat
C20_Witness ==
    /\ ret.op = "start_recovery" /\ ret.success
    /\ ~ret.rpc_ready /\ ~ret.wallet_found
    /\ recovery_status =
          StartingStatus(Str("Daemon started. Monitoring recovery..."))
    /\ \E i \in MonitorIds : monitors[i] = NewMonitor
    /\ fg = "idle"

\* ---- C21
\* C21: when start_recovery has returned success and every getinfo of the
\* monitor loop fails to connect, then, the monitor thread being scheduled
\* and the process staying alive, the loop that the call started ends with
\* the state of the status set to error, whatever the foreground calls in
\* between.
C21_UnreachableDaemonTimesOut ==
    \A i \in 1..MaxMonitors :
        (ret.op = "start_recovery" /\ ret.success /\ monitors[i] = NewMonitor)
            ~> (recovery_status.state = "error" /\ monitors[i].pc = "done")

\* the loop started by start_recovery has ended on its 6th failed getinfo,
\* leaving the error record with the start time of the run
C21_Witness ==
    /\ recovery_status = Status("error", Str("Daemon stopped responding."), Empty, "error")
    /\ recovery_start_time # None
    /\ stateFile = StateRecord(recovery_start_time, "error", now)
    /\ \E i \in MonitorIds :
          monitors[i].pc = "done" /\ monitors[i].consecutive_failures = max_failures

\* ---- C22
\* the threads that are in their loop (or in the sleep before it)
ActiveMonitors == {i \in MonitorIds : monitors[i].pc \in {"settle", "poll", "launch"}}

\* C22: at most one monitor loop is active in the process at any time,
\* whatever the sequence of start_recovery and resume_monitoring calls.
C22_AtMostOneMonitor == Cardinality(ActiveMonitors) <= 1

\* ---- C23
\* thread t is at a statement that reads or writes _recovery_status, or
\* between such statements
Accessing(t) == calls[t].pc \in {"held", "phase", "message", "release"}

\* C23: a thread that reads or writes _recovery_status holds the lock
\* while it does; the copy that get_recovery_status takes is, field for
\* field, the dict of one single update, and so are the state, phase and
\* message that check_recovery_in_progress reads one after the other, for
\* every interleaving of the threads.
C23_LockedAccess ==
    \A t \in Threads :
        /\ Accessing(t) => recovery_lock = t
        /\ calls[t].pc = "release" /\ calls[t].op = "get_recovery_status" =>
              calls[t].seen = recovery_status
        /\ calls[t].pc = "release" /\ calls[t].seen.state = "running" =>
              /\ calls[t].seen.phase = recovery_status.phase
              /\ calls[t].seen.message = recovery_status.message

\* check_recovery_in_progress has read a running status field by field
\* while a monitor thread is waiting for the lock with its next update
C23_Witness ==
    /\ calls[0].pc = "release"
    /\ calls[0].op = "check_recovery_in_progress"
    /\ calls[0].seen.state = "running"
    /\ \E t \in Threads \ {0} :
          /\ calls[t].pc = "acquire"
          /\ calls[t].arg.state = "complete"

\* ---- C24
\* the results with headers > 0 and blocks >= headers
SyncedAnswers ==
    {r \in Responses : r.kind = "ok" /\ r.headers > 0 /\ r.blocks >= r.headers}

CompleteStatus ==
    Status("complete", Str("Recovery complete. Ready to launch Divi Desktop."),
           <<"100", "%">>, "complete")

\* C24 as stated: a poll answered by a result with headers > 0 and
\* blocks >= headers sets state complete, phase complete, progress "100%",
\* ends the loop and (no file operation failing) leaves a persisted record
\* whose phase is complete.
C24_CompleteLeavesRecord ==
    [][\A i \in MonitorIds : \A r \in SyncedAnswers :
          MonitorPollOn(i, {r}) =>
             /\ recovery_status' = CompleteStatus
             /\ monitors'[i].pc = "done"
             /\ io_failures' = io_failures =>
                   stateFile'.exists /\ stateFile'.phase = "complete"
      ]_vars

\* C24: a poll answered by a result with headers > 0 and blocks >= headers
\* sets state complete, phase complete, progress "100%" and ends the loop;
\* it writes the record with phase complete and deletes the record right
\* after, so that no record is left (the record with phase complete stays
\* only when the removal fails).
C24_CompleteRemovesRecord ==
    [][\A i \in MonitorIds : \A r \in SyncedAnswers :
          MonitorPollOn(i, {r}) =>
             /\ recovery_status' = CompleteStatus
             /\ monitors'[i].pc = "done"
             /\ io_failures' = io_failures => stateFile' = NoFile
             /\ stateFile' \in {NoFile, stateFile,
                                StateRecord(recovery_start_time, "complete", now)}
      ]_vars

\* a poll that found blocks above headers has ended the loop at complete
\* with nothing left on disk
C24_Witness ==
    /\ recovery_status = CompleteStatus
    /\ recovery_start_time # None
    /\ stateFile = NoFile
    /\ io_failures = 0
    /\ \E i \in MonitorIds : monitors[i].pc = "done" /\ monitors[i].exit = ""

\* ---- C25
\* C25: a poll answered by a result with headers > 0 and
\* 0 <= blocks < headers sets state running, phase syncing and the progress
\* floor(blocks * 100 / headers) followed by "%"; with headers <= 0 it sets
\* phase syncing with the empty progress.
C25_SyncingProgress ==
    [][MonitorPollAnswered /\ wire.answer.kind = "ok" =>
          LET b == wire.answer.blocks
              h == wire.answer.headers
          IN  /\ h > 0 /\ b < h =>
                    /\ recovery_status'.state = "running"
                    /\ recovery_status'.phase = "syncing"
                    /\ recovery_status'.progress =
                          Str(ToString(PercentFloor(b, h))) \o Str("%")
              /\ h <= 0 =>
                    /\ recovery_status'.state = "running"
                    /\ recovery_status'.phase = "syncing"
                    /\ recovery_status'.progress = Empty
      ]_vars

\* ---- C26
\* the first of the substrings, in the order of the tests, that the
\* message holds (0: none)
FirstMatch(message) ==
    IF \E i \in DOMAIN Patterns : Contains(message, Patterns[i])
    THEN CHOOSE i \in DOMAIN Patterns :
            /\ Contains(message, Patterns[i])
            /\ \A j \in 1..(i - 1) : ~Contains(message, Patterns[j])
    ELSE 0

PatternPhase ==
    << "loading_blocks", "recovering_wallet", "scanning", "scanning",
       "verifying", "loading_blocks" >>

\* C26: a poll answered by an RPCError keeps state running and takes the
\* phase of the first substring, in the order "Loading block index",
\* "Loading wallet", "Rescanning", "Scanning", "Verifying", "Activating
\* best chain", that the message holds, wherever in the message it stands;
\* a message that holds none gets the empty phase and is the message of
\* the status, unchanged.  The loop goes to the auto-launch exactly from a
\* poll that set phase scanning while the flag was not set.
C26_FirstMatchWins ==
    [][MonitorPollAnswered /\ wire.answer.kind = "app" =>
          LET m == wire.answer.message
              k == FirstMatch(m)
          IN  /\ recovery_status'.state = "running"
              /\ k # 0 => recovery_status'.phase = PatternPhase[k]
              /\ k = 0 => /\ recovery_status'.phase = ""
                          /\ recovery_status'.message = m
                          /\ recovery_status'.progress = Empty
              /\ \A i \in MonitorIds :
                    monitors'[i] # monitors[i] =>
                       (monitors'[i].pc = "launch" <=>
                           recovery_status'.phase = "scanning" /\ ~auto_launched)
      ]_vars

\* a message that holds "Scanning" before "Loading wallet" has been given
\* the phase of the wallet, and no launch follows
C26_Witness ==
    /\ wire.stage = "outcome"
    /\ wire.answer = RPCError(<<"Scanning", "Loading wallet">>)
    /\ recovery_status.phase = "recovering_wallet"
    /\ \A i \in MonitorIds : monitors[i].pc = "poll"
    /\ ~auto_launched

\* ---- C27
Digits == {"37"}

NotSpace(tok) == ~IsSpace(tok)

\* the message without its blanks
Squeezed(message) == SelectSeq(message, NotSpace)

\* the places of a well-formed "(NN%)" in the message
PercentFragments(message) ==
    LET q == Squeezed(message)
    IN  {i \in 1..(Len(q) - 3) :
            q[i] = "(" /\ q[i + 1] \in Digits /\ q[i + 2] = "%" /\ q[i + 3] = ")"}

\* C27: a poll answered by a "Loading wallet" RPCError sets the progress
\* "NN%" when the message carries a well-formed "(NN%)", and the empty
\* progress when it carries none (no parenthesis, a parenthesis without a
\* percent sign, or one without a number).
C27_PercentOrEmpty ==
    [][/\ MonitorPollAnswered
       /\ wire.answer.kind = "app"
       /\ FirstMatch(wire.answer.message) = 2
       => LET q == Squeezed(wire.answer.message)
              at == PercentFragments(wire.answer.message)
          IN  recovery_status'.progress =
                 IF at = {} THEN Empty
                 ELSE <<q[(CHOOSE i \in at : \A j \in at : i <= j) + 1], "%">>
      ]_vars

\* ---- C28
\* DiviRPC.call has returned or raised for a reply that was delivered
Answered == wire.stage = "outcome" /\ wire.reply.transport = "delivered"

\* C28: for a reply with a status code outside 2xx whose body is an RPC
\* envelope, DiviRPC.call raises RPCError, and it returns a result for no
\* reply with a status code outside 2xx.
C28_Non2xxIsRPCError ==
    Answered /\ wire.reply.code \notin 200..299 =>
        /\ wire.reply.shape = "envelope" => wire.answer.kind = "app"
        /\ wire.answer.kind # "ok"

\* ---- C29
\* C29: DiviRPC.call raises RPCConnectionError only when the endpoint was
\* not reached; for a reply that was delivered, whatever its status code
\* and body, the call returns a result or raises RPCError, so that the
\* poll does not count as a connection failure.
C29_ReplyIsNoConnectionFailure ==
    /\ Answered => wire.answer.kind \in {"ok", "app"}
    /\ Answered => \A i \in MonitorIds : monitors[i].consecutive_failures = 0

\* ---- C30
\* some word or character of the secret stands in the text s
Reveals(s, secret) ==
    \E i \in 1..Len(s) : \E j \in 1..Len(secret) :
        s[i] = secret[j] /\ ~IsSpace(s[i])

\* C30: whatever a start_recovery call does and however it ends, no field
\* of the status it sets, no message it returns and no field of the
\* record it writes holds any part of the mnemonic it was given.
C30_SecretNotRevealed ==
    [][sr.mnemonic # Empty =>
          /\ ~Reveals(ret'.message, sr.mnemonic)
          /\ ~Reveals(recovery_status'.message, sr.mnemonic)
          /\ ~Reveals(recovery_status'.progress, sr.mnemonic)
          /\ ~Reveals(Str(recovery_status'.phase), sr.mnemonic)
          /\ ~Reveals(Str(stateFile'.phase), sr.mnemonic)
      ]_vars

\* ---- C31
\* what a poll of thread i answered with r leaves in memory
PollInMemory(i, r) ==
    LET out == PollOutcome(r, monitors[i].consecutive_failures)
    IN  [status |-> out.status,
         pc |-> AfterPoll(out.next),
         consecutive_failures |-> NextFailures(r, monitors[i].consecutive_failures)]

C32_ErrorIsPersisted ==
    [][\A i \in 1..MaxMonitors :
          (MonitorBegin(i) \/ MonitorPoll(i))
              /\ recovery_status'.state = "error"
              /\ io_failures' = io_failures
          => /\ stateFile'.exists /\ stateFile'.phase = "error"
             /\ monitors'[i].pc = "done"
      ]_vars

\* ---- C33
WaitingStatus ==
    Status("running", Str("Waiting for daemon response..."), Empty, "starting")

\* C33: a poll that fails to connect with fewer than max_failures
\* consecutive failures sets the status to running with phase starting,
\* whatever the status was, writes a record with phase starting (when the
\* write works), and leaves the loop at its next poll.
C33_ConnectionFailureBelowThreshold ==
    [][\A i \in 1..MaxMonitors :
          MonitorPollOn(i, ConnectionProbes)
              /\ monitors[i].consecutive_failures + 1 < max_failures
          => /\ recovery_status' = WaitingStatus
             /\ monitors'[i].pc = "poll"
             /\ monitors'[i].consecutive_failures =
                   monitors[i].consecutive_failures + 1
             /\ io_failures' = io_failures =>
                   stateFile' = StateRecord(recovery_start_time, "starting", now)
      ]_vars

\* the companion application was launched (which removed the record), and
\* a later poll failed to connect: running/starting, a new record with
\* phase starting, the loop still polling
C33_Witness ==
    /\ recovery_status = WaitingStatus
    /\ launches = 1 /\ auto_launched
    /\ stateFile.exists /\ stateFile.phase = "starting"
    /\ \E i \in MonitorIds :
          monitors[i].pc = "poll" /\ monitors[i].consecutive_failures = 1

\* ---- C34
\* the statements of thread t inside a with block: none sleeps, calls the
\* daemon, touches the record or takes the lock
InsideStep(t) ==
    \/ LockWrite(t) \/ LockCopy(t) \/ LockReadState(t)
    \/ LockReadPhase(t) \/ LockReadMessage(t) \/ LockRelease(t)

\* C34: the thread that holds the lock is at a statement of a with block,
\* never in its sleep, its RPC call, a file operation or a wait for the
\* lock; that statement can always be taken, so a thread that waits for
\* the lock is never waiting for a thread that waits itself: the accesses
\* cannot deadlock.
C34_LockHeldOnlyForAccess ==
    \A t \in Threads :
        /\ recovery_lock = t =>
              /\ Accessing(t)
              /\ calls[t].pc \notin {"idle", "clear", "acquire", "save"}
              /\ ENABLED InsideStep(t)
        /\ calls[t].pc = "acquire" =>
              \/ ENABLED LockAcquire(t)
              \/ \E u \in Threads \ {t} : recovery_lock = u /\ ENABLED InsideStep(u)

\* the foreground is in the _save_state of its _set_status, the with block
\* behind it, while a monitor thread holds the lock for its own update
C34_Witness ==
    /\ calls[0].pc = "save"
    /\ \E t \in Threads \ {0} : recovery_lock = t /\ calls[t].pc = "held"

\* ---- C35
\* what clear_recovery leaves: idle, no start time, no record
Cleared ==
    /\ recovery_status = IdleStatus
    /\ recovery_start_time = None
    /\ ~stateFile.exists

\* C35: once clear_recovery has returned with the record removed, the
\* status stays idle, the start time unset and the record absent through
\* every step that is not a start_recovery or a resume_monitoring, the
\* polls of a monitor loop that is still active included.
C35_ClearedUntilNextStart ==
    [][ret.op = "clear_recovery" /\ Cleared
          /\ ~(StartRecovery \/ ResumeMonitoring)
       => Cleared'
      ]_vars

\* ---- C36
\* C36: a record that exists has a start_time that is a number: no
\* sequence of calls and polls writes a record while the start time of
\* the operation is unset.
C36_RecordHasStartTime == stateFile.exists => stateFile.start_time # None

\* ---- C37
\* C37: while the state is running, a monitor loop is active or a
\* start_recovery call is still executing.
C37_RunningHasMonitor ==
    recovery_status.state = "running" => ActiveMonitors # {} \/ fg # "idle"

\* ---- C38
\* C38: with several monitor loops active, no loop launches the companion
\* application after another loop has set the auto-launch flag and
\* launched it for the same operation.
C38_NoLaunchAfterFlagSet ==
    [][\A i \in MonitorIds :
          AutoLaunchDesktop(i) /\ launches' = launches + 1
          => ~auto_launched \/ launches = 0
      ]_vars

====
